---- MODULE Spec2Model ----
(***************************************************************************)
(* State-machine model of the ocr-doc-frontend client: the OCR page, the   *)
(* Generate page, the Admin page with the API client's request             *)
(* interceptor, the query client that fetches the record lists, and the    *)
(* row rendering of the Records and Admin pages.                           *)
(*                                                                         *)
(* Each page is a React component: its useState cells are the variables,   *)
(* each event handler is one action, and every awaited backend call is     *)
(* split at the await into the step that sends it and the step that        *)
(* settles it.  The pages do not share component state, so each page has   *)
(* a specification of its own over the common variable list.               *)
(***************************************************************************)
EXTENDS Integers, Sequences, FiniteSets, TLC

(***************************************************************************)
(* JavaScript values.  A missing property reads as undefined, and a        *)
(* string is falsy exactly when it is undefined, null or empty.            *)
(***************************************************************************)
Undefined == "<undefined>"
Null == "<null>"

Truthy(v) == v # Undefined /\ v # Null /\ v # ""

\* a || b on strings
OrElse(a, b) == IF Truthy(a) THEN a ELSE b

(***************************************************************************)
(* Values the environment supplies.                                        *)
(***************************************************************************)
NoFile == Null
Files == {"a.png", "b.pdf"}

\* what the dropzone hands to onDrop: the accepted files (maxFiles: 1)
AcceptedLists == {<<>>} \cup {<<f>> : f \in Files}

\* a {docx?, pdf?} map; an absent key reads as undefined
EmptyUrls == [docx |-> Undefined, pdf |-> Undefined]
AbsoluteUrls == {"https://cdn.example/1.pdf"}
UrlMaps ==
    { EmptyUrls,
      [docx |-> "/files/1.docx", pdf |-> Undefined],
      [docx |-> "/files/1.docx", pdf |-> "https://cdn.example/1.pdf"] }

\* import.meta.env.VITE_API_BASE_URL || 'https://ocr-doc-backend.onrender.com'
ApiBase == "https://ocr-doc-backend.onrender.com"

\* url.startsWith('http') ? url : base + url
FullUrl(url) == IF url \in AbsoluteUrls THEN url ELSE ApiBase \o url

\* what a download action does in the browser
NoDownload == [kind |-> "none"]
OpenTab(page, format, url) ==
    [kind |-> "open", page |-> page, format |-> format, url |-> url]
SaveBlob(page, format, text) ==
    [kind |-> "blob", page |-> page, format |-> format, text |-> text]
Refused(page, format) == [kind |-> "refused", page |-> page, format |-> format]

\* result.files of a response body: missing, or a map
NoFilesField == [absent |-> TRUE]
FilesFields == {NoFilesField} \cup UrlMaps

\* result.files || {}
FilesOrEmpty(files) == IF files = NoFilesField THEN EmptyUrls ELSE files

\* the identity provider's session: none, or its access token
NoSession == Null
SessionTokens == {"s1"}

\* error.message of a rejected call
ErrorMessages == {"", "Request failed with status code 500"}

NoToast == [kind |-> "none", msg |-> ""]
ToastSuccess(m) == [kind |-> "success", msg |-> m]
ToastError(m) == [kind |-> "error", msg |-> m]

VARIABLES
    session,        \* the identity provider's session token, or NoSession
    \* ---- OCRPage
    ocrFile,        \* file
    ocrText,        \* extractedText
    ocrLoading,     \* loading
    ocrProcessed,   \* processed
    ocrUrls,        \* downloadUrls
    ocrReqs,        \* ocrConvert calls awaited by handleConvert
    ocrToast,       \* the last toast raised by the page
    ocrLast,        \* the last handler that ran, with its input
    \* ---- GeneratePage
    genDoc,         \* generatedDocument
    genLoading,     \* loading
    genProcessed,   \* processed
    genFile,        \* file
    genUrls,        \* downloadUrls
    genErrors,      \* formState.errors.prompt.message, or Undefined
    genReqs,        \* generateDocument calls awaited by onSubmit
    genToast,       \* the last toast raised by the page
    genLast,        \* the last handler that ran, with its input
    \* ---- RecordsPage
    recQuery,       \* the query ['records'] of the query client
    recSent,        \* the requests the last step put on the wire
    \* ---- AdminPage
    now,            \* Date.now()
    adminToken,     \* adminToken
    lsAdminToken,   \* localStorage item admin_token, Null when absent
    adminLogin,     \* loginMutation: "idle" or "pending"
    adminQuery,     \* the query ['admin-records'] of the query client
    adminDelete,    \* deleteRecordMutation: "idle", or the id being deleted
    adminToast,     \* the last toast raised by the page
    adminLast,      \* the last handler that ran, with its input
    adminSent,      \* the requests the last step put on the wire
    \* ---- the router and Layout
    location,       \* location.pathname
    rendered,       \* the element <Routes> renders
    mobileMenuOpen, \* Layout's mobileMenuOpen
    navToast,       \* the last toast raised by Layout
    navLast,        \* the last navigation step, with the path asked for
    \* ---- the browser
    download,       \* what the last download action did: a tab opened, a blob saved
    genVariant      \* which GeneratePage is built: "url" (with files) or "text"

ocrVars == <<ocrFile, ocrText, ocrLoading, ocrProcessed, ocrUrls, ocrReqs,
             ocrToast, ocrLast>>

genVars == <<genDoc, genLoading, genProcessed, genFile, genUrls, genErrors,
             genReqs, genToast, genLast>>

recVars == <<recQuery, recSent>>

adminVars == <<adminToken, lsAdminToken, adminLogin, adminQuery, adminDelete,
               adminToast, adminLast, adminSent>>

navVars == <<location, rendered, mobileMenuOpen, navToast, navLast>>

pages == <<ocrVars, genVars, recVars, adminVars, now, navVars, download, genVariant>>
notOcrNorDownload == <<genVars, recVars, adminVars, now, navVars, genVariant>>
notOcr == <<notOcrNorDownload, download>>
notGenNorDownload == <<ocrVars, recVars, adminVars, now, navVars, genVariant>>
notGen == <<notGenNorDownload, download>>
notRec == <<ocrVars, genVars, adminVars, now, navVars, download, genVariant>>
notAdmin == <<ocrVars, genVars, recVars, now, navVars, download, genVariant>>
notAdminNorClock == <<ocrVars, genVars, recVars, navVars, download, genVariant>>
notNav == <<ocrVars, genVars, recVars, adminVars, now, download, genVariant>>

vars == <<session, pages>>

(***************************************************************************)
(* The identity provider: a session starts and ends outside the pages.     *)
(***************************************************************************)
SessionStart ==
    /\ session = NoSession
    /\ \E t \in SessionTokens : session' = t

SessionEnd ==
    /\ session # NoSession
    /\ session' = NoSession

(***************************************************************************)
(* OCRPage                                                                 *)
(***************************************************************************)
OcrTexts == {Undefined, "", "hello"}
OcrPlaceholder == "No text extracted"

OcrEvent(op, file, text, files) ==
    [op |-> op, file |-> file, text |-> text, files |-> files]

OcrInit ==
    /\ ocrFile = NoFile
    /\ ocrText = ""
    /\ ocrLoading = FALSE
    /\ ocrProcessed = FALSE
    /\ ocrUrls = EmptyUrls
    /\ ocrReqs = <<>>
    /\ ocrToast = NoToast
    /\ ocrLast = OcrEvent("init", NoFile, Undefined, NoFilesField)

\* acceptedFiles[0]
FirstAccepted(acceptedFiles) ==
    IF Len(acceptedFiles) > 0 THEN acceptedFiles[1] ELSE Undefined

\* onDrop, without the reset of the earlier result
OcrOnDropKeepsResult(acceptedFiles) ==
    LET selectedFile == FirstAccepted(acceptedFiles) IN
    /\ IF selectedFile # Undefined
          THEN /\ ocrFile' = selectedFile
               /\ UNCHANGED <<ocrText, ocrProcessed, ocrUrls>>
          ELSE UNCHANGED <<ocrFile, ocrText, ocrProcessed, ocrUrls>>
    /\ ocrLast' = OcrEvent("onDrop", selectedFile, Undefined, NoFilesField)
    /\ UNCHANGED <<ocrLoading, ocrReqs, ocrToast>>

\* onDrop without its test of selectedFile: the reset happens on every drop
OcrOnDropAlwaysResets(acceptedFiles) ==
    LET selectedFile == FirstAccepted(acceptedFiles) IN
    /\ ocrFile' = OrElse(selectedFile, NoFile)
    /\ ocrText' = ""
    /\ ocrProcessed' = FALSE
    /\ ocrUrls' = EmptyUrls
    /\ ocrLast' = OcrEvent("onDrop", selectedFile, Undefined, NoFilesField)
    /\ UNCHANGED <<ocrLoading, ocrReqs, ocrToast>>

OcrOnDrop(acceptedFiles) ==
    LET selectedFile == FirstAccepted(acceptedFiles) IN
    /\ IF selectedFile # Undefined
          THEN /\ ocrFile' = selectedFile
               /\ ocrText' = ""
               /\ ocrProcessed' = FALSE
               /\ ocrUrls' = EmptyUrls
          ELSE UNCHANGED <<ocrFile, ocrText, ocrProcessed, ocrUrls>>
    /\ ocrLast' = OcrEvent("onDrop", selectedFile, Undefined, NoFilesField)
    /\ UNCHANGED <<ocrLoading, ocrReqs, ocrToast>>

\* the Extract Text button left enabled while loading
OcrConvertButtonIgnoresLoading == ocrFile # NoFile /\ ~ocrProcessed

\* the Extract Text button: rendered when file && !processed, disabled while loading
OcrConvertButtonEnabled == ocrFile # NoFile /\ ~ocrProcessed /\ ~ocrLoading

\* handleConvert without its guard on file
OcrHandleConvertUnguarded ==
    /\ ocrLast' = OcrEvent("convert", ocrFile, Undefined, NoFilesField)
    /\ ocrLoading' = TRUE
    /\ ocrReqs' = Append(ocrReqs, [file |-> ocrFile, stage |-> "auth"])
    /\ UNCHANGED <<ocrFile, ocrText, ocrProcessed, ocrUrls, ocrToast>>

\* handleConvert up to its await: the guard, setLoading(true), the call
OcrHandleConvert ==
    /\ ocrLast' = OcrEvent("convert", ocrFile, Undefined, NoFilesField)
    /\ IF ocrFile = NoFile
          THEN /\ ocrToast' = ToastError("Please select a file first")
               /\ UNCHANGED <<ocrLoading, ocrReqs>>
          ELSE /\ ocrLoading' = TRUE
               /\ ocrReqs' = Append(ocrReqs, [file |-> ocrFile, stage |-> "auth"])
               /\ UNCHANGED ocrToast
    /\ UNCHANGED <<ocrFile, ocrText, ocrProcessed, ocrUrls>>

OcrClickConvert ==
    /\ OcrConvertButtonEnabled
    /\ OcrHandleConvert

\* handleConvert run while no file is selected; the button is not rendered
\* then, so only a direct call of the handler gets here
OcrConvertNoFile ==
    /\ ocrFile = NoFile
    /\ OcrHandleConvert

RemoveAt(s, i) == SubSeq(s, 1, i - 1) \o SubSeq(s, i + 1, Len(s))

\* handleConvert's catch and finally
OcrCatch(i, message, op) ==
    /\ ocrToast' = ToastError(OrElse(message, "OCR conversion failed"))
    /\ ocrLoading' = FALSE
    /\ ocrReqs' = RemoveAt(ocrReqs, i)
    /\ ocrLast' = OcrEvent(op, ocrReqs[i].file, Undefined, NoFilesField)
    /\ UNCHANGED <<ocrFile, ocrText, ocrProcessed, ocrUrls>>

\* ocrConvert with no check of the user: the POST is sent either way
OcrAuthResolveUnchecked(i) ==
    /\ ocrReqs[i].stage = "auth"
    /\ ocrReqs' = [ocrReqs EXCEPT ![i].stage = "sent"]
    /\ UNCHANGED <<ocrFile, ocrText, ocrLoading, ocrProcessed,
                   ocrUrls, ocrToast, ocrLast>>

\* apiClient.ocrConvert: getCurrentUserId resolves, then the POST is sent
OcrAuthResolve(i) ==
    /\ ocrReqs[i].stage = "auth"
    /\ IF session = NoSession
          THEN OcrCatch(i, "User not authenticated", "authFailed")
          ELSE /\ ocrReqs' = [ocrReqs EXCEPT ![i].stage = "sent"]
               /\ UNCHANGED <<ocrFile, ocrText, ocrLoading, ocrProcessed,
                              ocrUrls, ocrToast, ocrLast>>

\* setExtractedText(result.text) without the placeholder
OcrShownTextRaw(text) == IF text = Undefined THEN "" ELSE text

\* result.text || 'No text extracted'
OcrShownText(text) == OrElse(text, OcrPlaceholder)

\* handleConvert after the await with a fence: a response for a file that is
\* no longer the selected one is dropped
OcrConvertOkFenced(i, text, files) ==
    /\ ocrReqs[i].stage = "sent"
    /\ IF ocrReqs[i].file = ocrFile
          THEN /\ ocrText' = OcrShownText(text)
               /\ ocrUrls' = FilesOrEmpty(files)
               /\ ocrProcessed' = TRUE
               /\ ocrToast' = ToastSuccess("Text extracted successfully!")
          ELSE UNCHANGED <<ocrText, ocrUrls, ocrProcessed, ocrToast>>
    /\ ocrLoading' = FALSE
    /\ ocrReqs' = RemoveAt(ocrReqs, i)
    /\ ocrLast' = OcrEvent("convertOk", ocrReqs[i].file, text, files)
    /\ UNCHANGED ocrFile

\* handleConvert after the await, the call fulfilled with result
OcrConvertOk(i, text, files) ==
    /\ ocrReqs[i].stage = "sent"
    /\ ocrText' = OcrShownText(text)
    /\ ocrUrls' = FilesOrEmpty(files)
    /\ ocrProcessed' = TRUE
    /\ ocrToast' = ToastSuccess("Text extracted successfully!")
    /\ ocrLoading' = FALSE
    /\ ocrReqs' = RemoveAt(ocrReqs, i)
    /\ ocrLast' = OcrEvent("convertOk", ocrReqs[i].file, text, files)
    /\ UNCHANGED ocrFile

\* handleConvert after the await, the call rejected
OcrConvertFailed(i, message) ==
    /\ ocrReqs[i].stage = "sent"
    /\ OcrCatch(i, message, "convertFailed")

\* removeFile without setDownloadUrls({})
OcrRemoveFileKeepsUrls ==
    /\ ocrFile # NoFile
    /\ ocrFile' = NoFile
    /\ ocrText' = ""
    /\ ocrProcessed' = FALSE
    /\ ocrLast' = OcrEvent("removeFile", NoFile, Undefined, NoFilesField)
    /\ UNCHANGED <<ocrUrls, ocrLoading, ocrReqs, ocrToast>>

OcrRemoveFile ==
    /\ ocrFile # NoFile
    /\ ocrFile' = NoFile
    /\ ocrText' = ""
    /\ ocrProcessed' = FALSE
    /\ ocrUrls' = EmptyUrls
    /\ ocrLast' = OcrEvent("removeFile", NoFile, Undefined, NoFilesField)
    /\ UNCHANGED <<ocrLoading, ocrReqs, ocrToast>>

Formats == {"docx", "pdf"}

\* the Word and PDF buttons: rendered with the text, disabled without a url
OcrHandleDownload(format) ==
    /\ Truthy(ocrText)
    /\ Truthy(ocrUrls[format])
    /\ download' = OpenTab("ocr", format, FullUrl(ocrUrls[format]))
    /\ ocrToast' = ToastSuccess("Opening " \o format)
    /\ ocrLast' = OcrEvent("download", ocrFile, Undefined, NoFilesField)
    /\ UNCHANGED <<ocrFile, ocrText, ocrLoading, ocrProcessed, ocrUrls, ocrReqs>>

NextOCR ==
    \/ \E a \in AcceptedLists : OcrOnDrop(a) /\ UNCHANGED <<session, notOcr>>
    \/ OcrClickConvert /\ UNCHANGED <<session, notOcr>>
    \/ OcrConvertNoFile /\ UNCHANGED <<session, notOcr>>
    \/ \E i \in 1..Len(ocrReqs) : OcrAuthResolve(i) /\ UNCHANGED <<session, notOcr>>
    \/ \E i \in 1..Len(ocrReqs), t \in OcrTexts, f \in FilesFields :
          OcrConvertOk(i, t, f) /\ UNCHANGED <<session, notOcr>>
    \/ \E i \in 1..Len(ocrReqs), m \in ErrorMessages :
          OcrConvertFailed(i, m) /\ UNCHANGED <<session, notOcr>>
    \/ OcrRemoveFile /\ UNCHANGED <<session, notOcr>>
    \/ \E fmt \in Formats :
          OcrHandleDownload(fmt) /\ UNCHANGED <<session, notOcrNorDownload>>
    \/ SessionStart /\ UNCHANGED pages
    \/ SessionEnd /\ UNCHANGED pages

(***************************************************************************)
(* GeneratePage (the version with the optional context file)               *)
(***************************************************************************)
MinPromptLen == 10
PromptTooShort == "Prompt must be at least 10 characters long"
GenPlaceholder == "No content generated"

\* what the user may have typed into the prompt field
Prompts == {"", "short", "123456789", "1234567890", "a long enough prompt"}

\* result.content of a response body
GenContents == {Undefined, "", "Dear Sir"}

GenEvent(op, prompt, file) == [op |-> op, prompt |-> prompt, file |-> file]

GenInit ==
    /\ genDoc = ""
    /\ genLoading = FALSE
    /\ genProcessed = FALSE
    /\ genFile = NoFile
    /\ genUrls = EmptyUrls
    /\ genErrors = Undefined
    /\ genReqs = <<>>
    /\ genToast = NoToast
    /\ genLast = GenEvent("init", Undefined, NoFile)

\* setFile(acceptedFiles[0] || null); the text version has no dropzone
GenOnDrop(acceptedFiles) ==
    /\ genVariant = "url"
    /\ genFile' = OrElse(FirstAccepted(acceptedFiles), NoFile)
    /\ genLast' = GenEvent("onDrop", Undefined, FirstAccepted(acceptedFiles))
    /\ UNCHANGED <<genDoc, genLoading, genProcessed, genUrls, genErrors,
                   genReqs, genToast>>

\* the X button beside the file name: setFile(null)
GenClearFile ==
    /\ genFile # NoFile
    /\ genFile' = NoFile
    /\ genLast' = GenEvent("clearFile", Undefined, NoFile)
    /\ UNCHANGED <<genDoc, genLoading, genProcessed, genUrls, genErrors,
                   genReqs, genToast>>

\* z.string().min(10) with the bound excluded
GenPromptValidExclusive(prompt) == Len(prompt) > MinPromptLen

\* generateSchema: z.string().min(10, ...)
GenPromptValid(prompt) == Len(prompt) >= MinPromptLen

\* user.id of the signed-in user
UserId(sess) == "uid-" \o sess

\* the body of a call that has not been sent
NoBody == [shape |-> "none"]

JsonBody(prompt, userId) ==
    [shape |-> "json", prompt |-> prompt, user_id |-> userId]

MultipartBody(prompt, userId, file) ==
    [shape |-> "multipart", prompt |-> prompt, user_id |-> userId, file |-> file]

\* generateDocument sending JSON whatever the file
GenBodyAlwaysJson(prompt, userId, file) == JsonBody(prompt, userId)

\* generateDocument's request body: if (file) FormData, else JSON
GenBody(prompt, userId, file) ==
    IF file # NoFile /\ file # Undefined
       THEN MultipartBody(prompt, userId, file)
       ELSE JsonBody(prompt, userId)

\* the file onSubmit passes: generateDocument(data.prompt, file), or
\* generateDocument(data.prompt) in the text version
GenFileArgument == IF genVariant = "url" THEN genFile ELSE Undefined

\* onSubmit up to its await, without setProcessed(false)
GenOnSubmitKeepsProcessed(prompt) ==
    /\ genLoading' = TRUE
    /\ genReqs' = Append(genReqs, [prompt |-> prompt, file |-> GenFileArgument,
                                   stage |-> "auth", body |-> NoBody])
    /\ UNCHANGED <<genDoc, genProcessed, genFile, genUrls, genToast>>

\* onSubmit up to its await
GenOnSubmit(prompt) ==
    /\ genLoading' = TRUE
    /\ genProcessed' = FALSE
    /\ genReqs' = Append(genReqs, [prompt |-> prompt, file |-> GenFileArgument,
                                   stage |-> "auth", body |-> NoBody])
    /\ UNCHANGED <<genDoc, genFile, genUrls, genToast>>

\* the form's submit: handleSubmit(onSubmit) validates, then calls onSubmit;
\* the submit button is disabled while loading
GenSubmit(prompt) ==
    /\ ~genLoading
    /\ genLast' = GenEvent("submit", prompt, genFile)
    /\ IF GenPromptValid(prompt)
          THEN /\ genErrors' = Undefined
               /\ GenOnSubmit(prompt)
          ELSE /\ genErrors' = PromptTooShort
               /\ UNCHANGED <<genDoc, genLoading, genProcessed, genFile,
                              genUrls, genReqs, genToast>>

\* onSubmit's catch and finally
GenCatch(i, message, op) ==
    /\ genToast' = ToastError(OrElse(message, "Document generation failed"))
    /\ genLoading' = FALSE
    /\ genReqs' = RemoveAt(genReqs, i)
    /\ genLast' = GenEvent(op, genReqs[i].prompt, genReqs[i].file)
    /\ UNCHANGED <<genDoc, genProcessed, genFile, genUrls, genErrors>>

\* apiClient.generateDocument: getCurrentUserId resolves, then the POST is sent
GenAuthResolve(i) ==
    /\ genReqs[i].stage = "auth"
    /\ IF session = NoSession
          THEN GenCatch(i, "User not authenticated", "authFailed")
          ELSE /\ genReqs' = [genReqs EXCEPT ![i].stage = "sent",
                                             ![i].body = GenBody(genReqs[i].prompt,
                                                                UserId(session),
                                                                genReqs[i].file)]
               /\ UNCHANGED <<genDoc, genLoading, genProcessed, genFile,
                              genUrls, genErrors, genToast, genLast>>

\* onSubmit after the await, the call fulfilled with result
GenSubmitOk(i, content, files) ==
    /\ genReqs[i].stage = "sent"
    /\ genDoc' = OrElse(content, GenPlaceholder)
    /\ genUrls' = IF genVariant = "url" THEN FilesOrEmpty(files) ELSE genUrls
    /\ genProcessed' = TRUE
    /\ genToast' = ToastSuccess("Document generated successfully!")
    /\ genLoading' = FALSE
    /\ genReqs' = RemoveAt(genReqs, i)
    /\ genLast' = GenEvent("submitOk", genReqs[i].prompt, genReqs[i].file)
    /\ UNCHANGED <<genFile, genErrors>>

\* onSubmit after the await, the call rejected
GenSubmitFailed(i, message) ==
    /\ genReqs[i].stage = "sent"
    /\ GenCatch(i, message, "submitFailed")

\* handleDownload saving the text when there is no url
GenHandleDownloadBlobFallback(format) ==
    /\ Truthy(genDoc)
    /\ download' = IF Truthy(genUrls[format])
                      THEN OpenTab("generate", format, FullUrl(genUrls[format]))
                      ELSE SaveBlob("generate", format, genDoc)
    /\ genToast' = ToastSuccess("Opening " \o format)
    /\ genLast' = GenEvent("download", Undefined, genFile)
    /\ UNCHANGED <<genDoc, genLoading, genProcessed, genFile, genUrls,
                   genErrors, genReqs>>

\* the Word and PDF buttons, rendered with the document: the url of the
\* format is opened, or refused with a toast; the text version saves a blob
GenHandleDownload(format) ==
    /\ Truthy(genDoc)
    /\ download' =
          IF genVariant = "text" THEN SaveBlob("generate", format, genDoc)
          ELSE IF Truthy(genUrls[format])
                  THEN OpenTab("generate", format, FullUrl(genUrls[format]))
                  ELSE Refused("generate", format)
    /\ genToast' =
          IF genVariant = "text" THEN ToastSuccess("Downloaded as " \o format)
          ELSE IF Truthy(genUrls[format])
                  THEN ToastSuccess("Opening " \o format)
                  ELSE ToastError(format \o " file not available")
    /\ genLast' = GenEvent("download", Undefined, genFile)
    /\ UNCHANGED <<genDoc, genLoading, genProcessed, genFile, genUrls,
                   genErrors, genReqs>>

\* the New Document button, rendered with the document
GenHandleNewDocument ==
    /\ Truthy(genDoc)
    /\ genDoc' = ""
    /\ genProcessed' = FALSE
    /\ genFile' = NoFile
    /\ genUrls' = EmptyUrls
    /\ genErrors' = Undefined
    /\ genLast' = GenEvent("newDocument", Undefined, NoFile)
    /\ UNCHANGED <<genLoading, genReqs, genToast>>

NextGen ==
    \/ \E a \in AcceptedLists : GenOnDrop(a) /\ UNCHANGED <<session, notGen>>
    \/ GenClearFile /\ UNCHANGED <<session, notGen>>
    \/ \E p \in Prompts : GenSubmit(p) /\ UNCHANGED <<session, notGen>>
    \/ \E i \in 1..Len(genReqs) : GenAuthResolve(i) /\ UNCHANGED <<session, notGen>>
    \/ \E i \in 1..Len(genReqs), c \in GenContents, f \in FilesFields :
          GenSubmitOk(i, c, f) /\ UNCHANGED <<session, notGen>>
    \/ \E i \in 1..Len(genReqs), m \in ErrorMessages :
          GenSubmitFailed(i, m) /\ UNCHANGED <<session, notGen>>
    \/ \E fmt \in Formats :
          GenHandleDownload(fmt) /\ UNCHANGED <<session, notGenNorDownload>>
    \/ GenHandleNewDocument /\ UNCHANGED <<session, notGen>>
    \/ SessionStart /\ UNCHANGED pages
    \/ SessionEnd /\ UNCHANGED pages

(***************************************************************************)
(* JSON.parse on a string given as its sequence of characters.  The        *)
(* grammar covered: null, true, false, unsigned integers, strings without  *)
(* escapes, and objects of these, without white space.                     *)
(***************************************************************************)
Digits == {"0", "1", "2", "3", "4", "5", "6", "7", "8", "9"}

JsonFail == [ok |-> FALSE]
JsonOk(val, next) == [ok |-> TRUE, val |-> val, next |-> next]

JNull == [t |-> "null"]
JBool(b) == [t |-> "bool", b |-> b]
JNum(digits) == [t |-> "num", digits |-> digits]
JStr(chars) == [t |-> "str", chars |-> chars]
JObj(members) == [t |-> "obj", members |-> members]

StartsWith(s, i, word) ==
    /\ i + Len(word) - 1 <= Len(s)
    /\ SubSeq(s, i, i + Len(word) - 1) = word

RECURSIVE ScanWhile(_, _, _)
\* the first index from i on whose character is not in set
ScanWhile(s, i, set) ==
    IF i <= Len(s) /\ s[i] \in set THEN ScanWhile(s, i + 1, set) ELSE i

RECURSIVE ScanQuote(_, _)
\* the index of the next double quote from i on, or 0
ScanQuote(s, i) ==
    IF i > Len(s) THEN 0
    ELSE IF s[i] = "\"" THEN i
    ELSE ScanQuote(s, i + 1)

JsonString(s, i) ==
    IF i <= Len(s) /\ s[i] = "\""
       THEN LET j == ScanQuote(s, i + 1) IN
            IF j = 0 THEN JsonFail
            ELSE JsonOk(JStr(SubSeq(s, i + 1, j - 1)), j + 1)
       ELSE JsonFail

RECURSIVE JsonValue(_, _)
RECURSIVE JsonMembers(_, _, _)

\* the members of an object after "{" or ",": "key":value, then "," or "}"
JsonMembers(s, i, members) ==
    LET k == JsonString(s, i) IN
    IF ~k.ok \/ k.next > Len(s) \/ s[k.next] # ":" THEN JsonFail
    ELSE LET v == JsonValue(s, k.next + 1) IN
         IF ~v.ok \/ v.next > Len(s) THEN JsonFail
         ELSE LET added == [key \in DOMAIN members \cup {k.val.chars} |->
                               IF key = k.val.chars THEN v.val ELSE members[key]]
              IN  IF s[v.next] = "}" THEN JsonOk(JObj(added), v.next + 1)
                  ELSE IF s[v.next] = "," THEN JsonMembers(s, v.next + 1, added)
                  ELSE JsonFail

JsonValue(s, i) ==
    IF i > Len(s) THEN JsonFail
    ELSE IF StartsWith(s, i, <<"n", "u", "l", "l">>) THEN JsonOk(JNull, i + 4)
    ELSE IF StartsWith(s, i, <<"t", "r", "u", "e">>) THEN JsonOk(JBool(TRUE), i + 4)
    ELSE IF StartsWith(s, i, <<"f", "a", "l", "s", "e">>) THEN JsonOk(JBool(FALSE), i + 5)
    ELSE IF s[i] \in Digits
         THEN LET j == ScanWhile(s, i, Digits) IN JsonOk(JNum(SubSeq(s, i, j - 1)), j)
    ELSE IF s[i] = "\"" THEN JsonString(s, i)
    ELSE IF s[i] = "{"
         THEN IF StartsWith(s, i, <<"{", "}">>) THEN JsonOk(JObj(<<>>), i + 2)
              ELSE JsonMembers(s, i + 1, <<>>)
    ELSE JsonFail

\* JSON.parse(s): the value, or a SyntaxError
JsonParse(s) ==
    LET r == JsonValue(s, 1) IN
    IF r.ok /\ r.next = Len(s) + 1 THEN [ok |-> TRUE, val |-> r.val] ELSE JsonFail

(***************************************************************************)
(* Records, as the backend lists them.  output_file_url is a string, held  *)
(* as its sequence of characters; created_at is held as the instant in     *)
(* milliseconds that new Date(created_at) yields, NaN when the string is   *)
(* no date.                                                                *)
(***************************************************************************)
NaN == -1
Day == 24 * 60 * 60 * 1000

UrlEmpty == <<>>
UrlMalformed == <<"{", "b", "a", "d">>
UrlTruncated == <<"{", "\"", "d", "o", "c", "x", "\"", ":", "n", "u", "l", "l", ",">>
UrlNoFiles == <<"{", "}">>
UrlDocx == <<"{", "\"", "d", "o", "c", "x", "\"", ":", "\"", "u", "\"", "}">>
UrlBoth == <<"{", "\"", "d", "o", "c", "x", "\"", ":", "\"", "u", "\"", ",",
             "\"", "p", "d", "f", "\"", ":", "\"", "v", "\"", "}">>
UrlBlankPdf == <<"{", "\"", "p", "d", "f", "\"", ":", "\"", "\"", "}">>
UrlNull == <<"n", "u", "l", "l">>

Record(id, created_at, output_file_url) ==
    [id |-> id, created_at |-> created_at, output_file_url |-> output_file_url]

\* the sequences over set of length n, and of length up to n
RECURSIVE SeqsOfLen(_, _)
SeqsOfLen(set, n) ==
    IF n = 0 THEN {<<>>}
    ELSE {Append(s, x) : s \in SeqsOfLen(set, n - 1), x \in set}

SeqsUpTo(set, n) == UNION {SeqsOfLen(set, k) : k \in 0..n}

(***************************************************************************)
(* A row of the record lists: records.map on the Records and Admin pages.  *)
(***************************************************************************)
JUndefined == [t |-> "undefined"]
JThrown == [t |-> "thrown"]

\* JSON.parse(record.output_file_url || "{}") with no try around it
ParseUrlsUncaught(output_file_url) ==
    LET r == JsonParse(IF output_file_url = <<>> THEN <<"{", "}">>
                                                 ELSE output_file_url)
    IN  IF r.ok THEN r.val ELSE JThrown

\* let urls = {}; try { urls = JSON.parse(record.output_file_url || "{}") } catch (e) {}
ParseUrls(output_file_url) ==
    LET r == JsonParse(IF output_file_url = <<>> THEN <<"{", "}">>
                                                 ELSE output_file_url)
    IN  IF r.ok THEN r.val ELSE JObj(<<>>)

\* whether reading a property of v throws a TypeError
ReadThrows(v) == v.t \in {"null", "undefined", "thrown"}

\* v[key], for a v that can be read
GetProp(v, key) ==
    IF v.t = "obj" /\ key \in DOMAIN v.members THEN v.members[key] ELSE JUndefined

\* a value as a condition
JTruthy(v) ==
    CASE v.t = "str" -> v.chars # <<>>
      [] v.t = "num" -> \E i \in 1..Len(v.digits) : v.digits[i] # "0"
      [] v.t = "bool" -> v.b
      [] v.t = "obj" -> TRUE
      [] OTHER -> FALSE

KeyDocx == <<"d", "o", "c", "x">>
KeyPdf == <<"p", "d", "f">>

RowFailed == [failed |-> TRUE]

\* one row of RecordsPage: the DOCX and PDF links it shows
RecordsRow(record) ==
    LET urls == ParseUrls(record.output_file_url) IN
    IF ReadThrows(urls) THEN RowFailed
    ELSE [failed |-> FALSE,
          docx |-> JTruthy(GetProp(urls, KeyDocx)),
          pdf |-> JTruthy(GetProp(urls, KeyPdf))]

\* one row of AdminPage: the DOCX and PDF badges it shows
AdminRow(record) ==
    LET urls == ParseUrls(record.output_file_url) IN
    IF ReadThrows(urls) THEN RowFailed
    ELSE [failed |-> FALSE,
          docx |-> JTruthy(GetProp(urls, KeyDocx)),
          pdf |-> JTruthy(GetProp(urls, KeyPdf))]

\* records.map on RecordsPage: an exception in one row fails the whole render
RecordsRows(records) ==
    IF \E i \in 1..Len(records) : RecordsRow(records[i]).failed
       THEN [screen |-> "crashed"]
       ELSE [screen |-> "list",
             rows |-> [i \in 1..Len(records) |-> RecordsRow(records[i])]]

\* records.map on AdminPage
AdminRows(records) ==
    IF \E i \in 1..Len(records) : AdminRow(records[i]).failed
       THEN [screen |-> "crashed"]
       ELSE [screen |-> "list",
             rows |-> [i \in 1..Len(records) |-> AdminRow(records[i])]]

(***************************************************************************)
(* The query client (App.tsx) and one query of it.  fetchStatus is "idle", *)
(* "fetching" while a request is on the wire, and "retrying" while the     *)
(* retryer waits before it sends the request again.                        *)
(***************************************************************************)
Retry == 1

QueryInit ==
    [fetchStatus |-> "idle", failureCount |-> 0, data |-> <<>>, hasData |-> FALSE,
     error |-> FALSE, invalidated |-> FALSE, trigger |-> "none", resends |-> 0]

\* query.fetch(): a request is sent; an error without data is reset to pending
QueryFetch(q, trigger) ==
    [q EXCEPT !.fetchStatus = "fetching", !.failureCount = 0,
              !.error = IF q.hasData THEN q.error ELSE FALSE,
              !.trigger = trigger, !.resends = 0]

\* the retryer's test with the count off by one
QueryShouldRetryOnceMore(q) == q.failureCount <= Retry

\* the retryer: retry while failureCount < retry
QueryShouldRetry(q) == q.failureCount < Retry

\* the request rejected
QueryFailed(q) ==
    IF QueryShouldRetry(q)
       THEN [q EXCEPT !.failureCount = @ + 1, !.fetchStatus = "retrying"]
       ELSE [q EXCEPT !.failureCount = @ + 1, !.fetchStatus = "idle", !.error = TRUE]

\* the retryer sends the request again
QueryRetry(q) ==
    [q EXCEPT !.fetchStatus = "fetching", !.trigger = "retry", !.resends = @ + 1]

\* the request fulfilled with data
QuerySucceeded(q, data) ==
    [q EXCEPT !.fetchStatus = "idle", !.failureCount = 0, !.data = data,
              !.hasData = TRUE, !.error = FALSE, !.invalidated = FALSE]

\* isLoading: fetching with neither data nor error
QueryIsLoading(q) == q.fetchStatus # "idle" /\ ~q.hasData /\ ~q.error

(***************************************************************************)
(* The API client's axios instance: a per-call Authorization header, then  *)
(* the request interceptor, which runs on the merged config of every call. *)
(***************************************************************************)
Bearer(token) == "Bearer " \o token

\* headers: adminToken ? { Authorization: `Bearer ${adminToken}` } : {}
AdminHeaders(stored) == IF Truthy(stored) THEN Bearer(stored) ELSE Undefined

\* api.interceptors.request.use: the session's token overwrites Authorization
Interceptor(authorization, sess) ==
    IF Truthy(sess) THEN Bearer(sess) ELSE authorization

Request(kind, authorization, stored) ==
    [kind |-> kind, auth |-> authorization, stored |-> stored]

\* adminGetAllRecords as it leaves the client, stored being the admin_token item
AdminListRequestWith(stored) ==
    Request("admin-list", Interceptor(AdminHeaders(stored), session), stored)

AdminListRequest == AdminListRequestWith(lsAdminToken)

\* adminDeleteRecord as it leaves the client
AdminDeleteRequest ==
    Request("admin-delete", Interceptor(AdminHeaders(lsAdminToken), session), lsAdminToken)

\* adminLogin as it leaves the client
AdminLoginRequest ==
    Request("admin-login", Interceptor(Undefined, session), lsAdminToken)

(***************************************************************************)
(* RecordsPage                                                             *)
(***************************************************************************)
MaxRecords == 2
CreatedAtBase == 1000

RecordUrls == {UrlEmpty, UrlMalformed, UrlTruncated, UrlNoFiles, UrlDocx, UrlBoth,
               UrlBlankPdf, UrlNull}

\* the lists getRecords may answer with
RecordsAnswers ==
    {[i \in 1..Len(us) |-> Record("r" \o ToString(i), CreatedAtBase, us[i])] :
        us \in SeqsUpTo(RecordUrls, MaxRecords)}

\* getRecords as it leaves the client
ListRequest == Request("list", Interceptor(Undefined, session), Undefined)

\* the component mounts and its query fetches
RecInit ==
    /\ recQuery = QueryFetch(QueryInit, "mount")
    /\ recSent = <<ListRequest>>

\* what RecordsPage renders
RecordsPageView(q) ==
    IF QueryIsLoading(q) THEN [screen |-> "loading"]
    ELSE IF q.error THEN [screen |-> "error"]
    ELSE IF q.hasData /\ Len(q.data) > 0 THEN RecordsRows(q.data)
    ELSE [screen |-> "empty"]

RecFetchOk(data) ==
    /\ recQuery.fetchStatus = "fetching"
    /\ recQuery' = QuerySucceeded(recQuery, data)
    /\ recSent' = <<>>

RecFetchFailed ==
    /\ recQuery.fetchStatus = "fetching"
    /\ recQuery' = QueryFailed(recQuery)
    /\ recSent' = <<>>

RecRetry ==
    /\ recQuery.fetchStatus = "retrying"
    /\ recQuery' = QueryRetry(recQuery)
    /\ recSent' = <<ListRequest>>

\* refetchInterval: 30000; a fetch under way is not doubled
RecInterval ==
    /\ recQuery.fetchStatus = "idle"
    /\ recQuery' = QueryFetch(recQuery, "interval")
    /\ recSent' = <<ListRequest>>

\* the Try Again button of the error screen: refetch() cancels a fetch under way
RecTryAgain ==
    /\ RecordsPageView(recQuery).screen = "error"
    /\ recQuery' = QueryFetch(recQuery, "refetch")
    /\ recSent' = <<ListRequest>>

NextRecords ==
    \/ \E d \in RecordsAnswers : RecFetchOk(d) /\ UNCHANGED <<session, notRec>>
    \/ RecFetchFailed /\ UNCHANGED <<session, notRec>>
    \/ RecRetry /\ UNCHANGED <<session, notRec>>
    \/ RecInterval /\ UNCHANGED <<session, notRec>>
    \/ RecTryAgain /\ UNCHANGED <<session, notRec>>
    \/ SessionStart /\ recSent' = <<>> /\ UNCHANGED <<recQuery, notRec>>
    \/ SessionEnd /\ recSent' = <<>> /\ UNCHANGED <<recQuery, notRec>>

(***************************************************************************)
(* AdminPage                                                               *)
(***************************************************************************)
AdminTokens == {"a1", "a2"}

\* the body of a fulfilled adminLogin: { access_token }, or that under data
LoginBodies ==
    {[access_token |-> t] : t \in AdminTokens}
        \cup {[data |-> [access_token |-> t]] : t \in AdminTokens}

MaxAdminRecords == 2
MaxTicks == 2

\* the clock starts one millisecond before the first record turns 24 hours old
NowBase == CreatedAtBase + Day - 1

AdminRecords ==
    { Record("r1", CreatedAtBase, UrlDocx),
      Record("r2", CreatedAtBase + 1, UrlMalformed),
      Record("r3", NaN, UrlNoFiles) }

\* the lists adminGetAllRecords may answer with: each record at most once
AdminAnswers ==
    {l \in SeqsUpTo(AdminRecords, MaxAdminRecords) :
        \A i, j \in 1..Len(l) : i # j => l[i] # l[j]}

AdminEvent(op, token) == [op |-> op, token |-> token]

\* useState(localStorage.getItem('admin_token') || ''); an enabled query
\* fetches as the component mounts
AdminInit ==
    /\ lsAdminToken \in {Null} \cup AdminTokens
    /\ adminToken = OrElse(lsAdminToken, "")
    /\ adminLogin = "idle"
    /\ adminDelete = "idle"
    /\ adminToast = NoToast
    /\ adminLast = AdminEvent("init", Undefined)
    /\ IF Truthy(lsAdminToken)
          THEN /\ adminQuery = QueryFetch(QueryInit, "mount")
               /\ adminSent = <<AdminListRequest>>
          ELSE /\ adminQuery = QueryInit
               /\ adminSent = <<>>

\* if (!adminToken) the login form, else the dashboard
AdminScreen == IF ~Truthy(adminToken) THEN "login" ELSE "dashboard"

\* the rows of the dashboard's table
AdminTable ==
    IF QueryIsLoading(adminQuery) THEN [screen |-> "loading"]
    ELSE IF Len(adminQuery.data) = 0 THEN [screen |-> "empty"]
    ELSE AdminRows(adminQuery.data)

\* new Date(a) > new Date(b), or equal
DateAfterOrEqual(a, b) == a # NaN /\ b # NaN /\ a >= b

\* new Date(a) > new Date(b): false when either is an invalid date
DateAfter(a, b) == a # NaN /\ b # NaN /\ a > b

RECURSIVE CountRecent(_, _)
\* records.filter(r => new Date(r.created_at) > new Date(t)).length
CountRecent(records, t) ==
    IF records = <<>> THEN 0
    ELSE (IF DateAfter(Head(records).created_at, t) THEN 1 ELSE 0)
            + CountRecent(Tail(records), t)

\* the three statistics of the dashboard, computed as it renders
AdminStats ==
    [total |-> Len(adminQuery.data),
     recent |-> CountRecent(adminQuery.data, now - Day)]

\* the clock advances between renders
Tick ==
    /\ now < NowBase + MaxTicks
    /\ now' = now + 1

\* handleLogin: loginMutation.mutate(loginForm); the button is disabled while pending
AdminHandleLogin ==
    /\ AdminScreen = "login"
    /\ adminLogin = "idle"
    /\ adminLogin' = "pending"
    /\ adminSent' = <<AdminLoginRequest>>
    /\ adminLast' = AdminEvent("login", Undefined)
    /\ UNCHANGED <<adminToken, lsAdminToken, adminQuery, adminDelete, adminToast>>

\* data.data.access_token of onSuccess(data), Undefined when data.data is missing
LoginAccessToken(body) ==
    IF "data" \in DOMAIN body THEN body.data.access_token ELSE Undefined

\* the query becomes enabled: it fetches when it is idle and stale
AdminEnabledFetch(stale, stored) ==
    IF adminQuery.fetchStatus = "idle"
          /\ (~adminQuery.hasData \/ adminQuery.invalidated \/ stale)
       THEN /\ adminQuery' = QueryFetch(adminQuery, "enabled")
            /\ adminSent' = <<AdminListRequestWith(stored)>>
       ELSE /\ UNCHANGED adminQuery
            /\ adminSent' = <<>>

\* loginMutation fulfilled: onSuccess; a TypeError thrown in it ends in onError
AdminLoginOk(body, stale) ==
    /\ adminLogin = "pending"
    /\ adminLogin' = "idle"
    /\ adminLast' = AdminEvent("loginOk", IF "data" \in DOMAIN body
                                             THEN body.data.access_token
                                             ELSE body.access_token)
    /\ IF LoginAccessToken(body) = Undefined
          THEN /\ adminToast' = ToastError("Invalid admin credentials")
               /\ adminSent' = <<>>
               /\ UNCHANGED <<adminToken, lsAdminToken, adminQuery>>
          ELSE /\ adminToken' = LoginAccessToken(body)
               /\ lsAdminToken' = LoginAccessToken(body)
               /\ adminToast' = ToastSuccess("Admin login successful")
               /\ AdminEnabledFetch(stale, LoginAccessToken(body))
    /\ UNCHANGED adminDelete

\* loginMutation rejected: onError
AdminLoginFailed ==
    /\ adminLogin = "pending"
    /\ adminLogin' = "idle"
    /\ adminToast' = ToastError("Invalid admin credentials")
    /\ adminLast' = AdminEvent("loginFailed", Undefined)
    /\ adminSent' = <<>>
    /\ UNCHANGED <<adminToken, lsAdminToken, adminQuery, adminDelete>>

\* handleLogout, the Logout button of the dashboard
\* handleLogout without localStorage.removeItem('admin_token')
AdminHandleLogoutKeepsStorage ==
    /\ AdminScreen = "dashboard"
    /\ adminToken' = ""
    /\ adminToast' = ToastSuccess("Logged out")
    /\ adminLast' = AdminEvent("logout", Undefined)
    /\ adminSent' = <<>>
    /\ UNCHANGED <<lsAdminToken, adminLogin, adminQuery, adminDelete>>

AdminHandleLogout ==
    /\ AdminScreen = "dashboard"
    /\ adminToken' = ""
    /\ lsAdminToken' = Null
    /\ adminToast' = ToastSuccess("Logged out")
    /\ adminLast' = AdminEvent("logout", Undefined)
    /\ adminSent' = <<>>
    /\ UNCHANGED <<adminLogin, adminQuery, adminDelete>>

AdminListOk(data) ==
    /\ adminQuery.fetchStatus = "fetching"
    /\ adminQuery' = QuerySucceeded(adminQuery, data)
    /\ adminLast' = AdminEvent("listOk", Undefined)
    /\ adminSent' = <<>>
    /\ UNCHANGED <<adminToken, lsAdminToken, adminLogin, adminDelete, adminToast>>

AdminListFailed ==
    /\ adminQuery.fetchStatus = "fetching"
    /\ adminQuery' = QueryFailed(adminQuery)
    /\ adminLast' = AdminEvent("listFailed", Undefined)
    /\ adminSent' = <<>>
    /\ UNCHANGED <<adminToken, lsAdminToken, adminLogin, adminDelete, adminToast>>

\* the retryer of the query sends adminGetAllRecords again
AdminListRetry ==
    /\ adminQuery.fetchStatus = "retrying"
    /\ adminQuery' = QueryRetry(adminQuery)
    /\ adminLast' = AdminEvent("listRetry", Undefined)
    /\ adminSent' = <<AdminListRequest>>
    /\ UNCHANGED <<adminToken, lsAdminToken, adminLogin, adminDelete, adminToast>>

\* the row's delete button: deleteRecordMutation.mutate(record.id)
AdminClickDelete(i) ==
    /\ AdminScreen = "dashboard"
    /\ AdminTable.screen = "list"
    /\ i \in 1..Len(adminQuery.data)
    /\ adminDelete = "idle"
    /\ adminDelete' = adminQuery.data[i].id
    /\ adminLast' = AdminEvent("delete", Undefined)
    /\ adminSent' = <<AdminDeleteRequest>>
    /\ UNCHANGED <<adminToken, lsAdminToken, adminLogin, adminQuery, adminToast>>

\* invalidateQueries that marks the query stale and never fetches
AdminInvalidateMarkOnly ==
    /\ adminQuery' = [adminQuery EXCEPT !.invalidated = TRUE]
    /\ adminSent' = <<>>

\* invalidateQueries: the query is marked stale and, when its observer is
\* enabled, fetched again; a fetch under way that has data is cancelled
AdminInvalidate ==
    IF Truthy(adminToken)
          /\ (adminQuery.fetchStatus = "idle" \/ adminQuery.hasData)
       THEN /\ adminQuery' = QueryFetch([adminQuery EXCEPT !.invalidated = TRUE],
                                        "invalidate")
            /\ adminSent' = <<AdminListRequest>>
       ELSE /\ adminQuery' = [adminQuery EXCEPT !.invalidated = TRUE]
            /\ adminSent' = <<>>

\* deleteRecordMutation fulfilled: onSuccess
AdminDeleteOk ==
    /\ adminDelete # "idle"
    /\ adminDelete' = "idle"
    /\ adminToast' = ToastSuccess("Record deleted")
    /\ AdminInvalidate
    /\ adminLast' = AdminEvent("deleteOk", Undefined)
    /\ UNCHANGED <<adminToken, lsAdminToken, adminLogin>>

\* deleteRecordMutation rejected: onError
AdminDeleteFailed ==
    /\ adminDelete # "idle"
    /\ adminDelete' = "idle"
    /\ adminToast' = ToastError("Failed to delete record")
    /\ adminLast' = AdminEvent("deleteFailed", Undefined)
    /\ adminSent' = <<>>
    /\ UNCHANGED <<adminToken, lsAdminToken, adminLogin, adminQuery>>

\* a step of the identity provider or of the clock puts nothing on the wire
AdminQuiet ==
    /\ adminSent' = <<>>
    /\ UNCHANGED <<adminToken, lsAdminToken, adminLogin, adminQuery, adminDelete,
                   adminToast, adminLast>>

NextAdmin ==
    \/ AdminHandleLogin /\ UNCHANGED <<session, notAdmin>>
    \/ \E b \in LoginBodies, stale \in BOOLEAN :
          AdminLoginOk(b, stale) /\ UNCHANGED <<session, notAdmin>>
    \/ AdminLoginFailed /\ UNCHANGED <<session, notAdmin>>
    \/ AdminHandleLogout /\ UNCHANGED <<session, notAdmin>>
    \/ \E d \in AdminAnswers : AdminListOk(d) /\ UNCHANGED <<session, notAdmin>>
    \/ AdminListFailed /\ UNCHANGED <<session, notAdmin>>
    \/ AdminListRetry /\ UNCHANGED <<session, notAdmin>>
    \/ \E i \in 1..Len(adminQuery.data) :
          AdminClickDelete(i) /\ UNCHANGED <<session, notAdmin>>
    \/ AdminDeleteOk /\ UNCHANGED <<session, notAdmin>>
    \/ AdminDeleteFailed /\ UNCHANGED <<session, notAdmin>>
    \/ SessionStart /\ AdminQuiet /\ UNCHANGED notAdmin
    \/ SessionEnd /\ AdminQuiet /\ UNCHANGED notAdmin
    \/ Tick /\ AdminQuiet /\ UNCHANGED <<session, notAdminNorClock>>

(***************************************************************************)
(* The router (App.tsx) and the Layout shell around it.  A navigation      *)
(* settles in the same step: a <Navigate> element replaces the location    *)
(* until a page, or nothing, is rendered.                                  *)
(***************************************************************************)
Paths == {"/login", "/signup", "/ocr", "/generate", "/records", "/", "/admin"}
ProtectedPaths == {"/ocr", "/generate", "/records"}
ProtectedPages == {"OCRPage", "GeneratePage", "RecordsPage"}

RoutePage(page, protected) == [kind |-> "page", page |-> page, protected |-> protected]
RouteNavigate(to) == [kind |-> "navigate", to |-> to]
RouteNone == [kind |-> "none"]

\* the route table with /ocr left unguarded
RouteOcrUnguarded(path) ==
    CASE path = "/login" -> RoutePage("LoginPage", FALSE)
      [] path = "/signup" -> RoutePage("SignupPage", FALSE)
      [] path = "/ocr" -> RoutePage("OCRPage", FALSE)
      [] path = "/generate" -> RoutePage("GeneratePage", TRUE)
      [] path = "/records" -> RoutePage("RecordsPage", TRUE)
      [] path = "/" -> RouteNavigate("/ocr")
      [] OTHER -> RouteNone

\* <Routes>: the element of the route that matches path
Route(path) ==
    CASE path = "/login" -> RoutePage("LoginPage", FALSE)
      [] path = "/signup" -> RoutePage("SignupPage", FALSE)
      [] path = "/ocr" -> RoutePage("OCRPage", TRUE)
      [] path = "/generate" -> RoutePage("GeneratePage", TRUE)
      [] path = "/records" -> RoutePage("RecordsPage", TRUE)
      [] path = "/" -> RouteNavigate("/ocr")
      [] OTHER -> RouteNone

\* <ProtectedRoute>: its children for a signed-in user, else a redirect
ProtectedRoute(user, page) ==
    IF Truthy(user) THEN RoutePage(page, TRUE) ELSE RouteNavigate("/login")

\* what the matching route renders for this user
Element(path, user) ==
    LET r == Route(path) IN
    IF r.kind = "page" /\ r.protected THEN ProtectedRoute(user, r.page) ELSE r

RECURSIVE Settle(_, _)
\* the location and the content once every <Navigate> has run
Settle(path, user) ==
    LET e == Element(path, user) IN
    CASE e.kind = "navigate" -> Settle(e.to, user)
      [] e.kind = "page" -> [location |-> path, content |-> e.page]
      [] OTHER -> [location |-> path, content |-> "nothing"]

NavEvent(op, path, user) == [op |-> op, path |-> path, user |-> user]

\* the page is opened at path by a signed-in or signed-out user
NavInit ==
    /\ \E p \in Paths :
          /\ location = Settle(p, session).location
          /\ rendered = Settle(p, session).content
          /\ navLast = NavEvent("open", p, session)
    /\ mobileMenuOpen = FALSE
    /\ navToast = NoToast

\* the render that follows a change of path or of user
NavRender(path, user) ==
    /\ location' = Settle(path, user).location
    /\ rendered' = Settle(path, user).content

\* the address bar, a link of a page, or a link of the desktop navigation
NavGo(path) ==
    /\ NavRender(path, session)
    /\ navLast' = NavEvent("go", path, session)
    /\ UNCHANGED <<session, mobileMenuOpen, navToast>>

\* the menu button of the header, rendered for a signed-in user
NavToggleMenu ==
    /\ Truthy(session)
    /\ mobileMenuOpen' = ~mobileMenuOpen
    /\ navLast' = NavEvent("menu", location, session)
    /\ UNCHANGED <<session, location, rendered, navToast>>

\* a link of the mobile navigation: setMobileMenuOpen(false) and the navigation
NavMenuLink(path) ==
    /\ Truthy(session)
    /\ mobileMenuOpen
    /\ path \in ProtectedPaths
    /\ mobileMenuOpen' = FALSE
    /\ NavRender(path, session)
    /\ navLast' = NavEvent("go", path, session)
    /\ UNCHANGED <<session, navToast>>

\* handleSignOut, signOut fulfilled
NavSignOutOk ==
    /\ Truthy(session)
    /\ session' = NoSession
    /\ NavRender("/login", NoSession)
    /\ navToast' = ToastSuccess("Signed out successfully")
    /\ navLast' = NavEvent("signOut", "/login", NoSession)
    /\ UNCHANGED mobileMenuOpen

\* handleSignOut, signOut rejected
NavSignOutFailed ==
    /\ Truthy(session)
    /\ navToast' = ToastError("Error signing out")
    /\ navLast' = NavEvent("signOutFailed", location, session)
    /\ UNCHANGED <<session, location, rendered, mobileMenuOpen>>

\* the identity provider reports a new user, or none: the routes render again
NavAuthChange ==
    /\ SessionStart \/ SessionEnd
    /\ NavRender(location, session')
    /\ navLast' = NavEvent("authChange", location, session')
    /\ UNCHANGED <<mobileMenuOpen, navToast>>

NextRouter ==
    \/ \E p \in Paths : NavGo(p) /\ UNCHANGED notNav
    \/ NavToggleMenu /\ UNCHANGED notNav
    \/ \E p \in Paths : NavMenuLink(p) /\ UNCHANGED notNav
    \/ NavSignOutOk /\ UNCHANGED notNav
    \/ NavSignOutFailed /\ UNCHANGED notNav
    \/ NavAuthChange /\ UNCHANGED notNav

SessionInit == session \in {NoSession} \cup SessionTokens

\* a page that a specification leaves alone rests in its first state
RecIdle == recQuery = QueryInit /\ recSent = <<>>

AdminIdle ==
    /\ adminToken = ""
    /\ lsAdminToken = Null
    /\ adminLogin = "idle"
    /\ adminQuery = QueryInit
    /\ adminDelete = "idle"
    /\ adminToast = NoToast
    /\ adminLast = AdminEvent("init", Undefined)
    /\ adminSent = <<>>

NowInit == now = NowBase

\* nothing downloaded yet; the GeneratePage with the context file is built
BrowserInit == download = NoDownload /\ genVariant = "url"

\* nothing downloaded yet; either GeneratePage is built
BrowserInitEither == download = NoDownload /\ genVariant \in {"url", "text"}

\* a page under its own specification stays mounted at its path
NavAt(path, page) ==
    /\ location = path
    /\ rendered = page
    /\ mobileMenuOpen = FALSE
    /\ navToast = NoToast
    /\ navLast = NavEvent("open", path, Undefined)

InitOCR ==
    /\ BrowserInit
    /\ SessionInit /\ OcrInit /\ GenInit /\ RecIdle /\ AdminIdle /\ NowInit
    /\ NavAt("/ocr", "OCRPage")

SpecOCR == InitOCR /\ [][NextOCR]_vars

InitGen ==
    /\ BrowserInitEither
    /\ SessionInit /\ OcrInit /\ GenInit /\ RecIdle /\ AdminIdle /\ NowInit
    /\ NavAt("/generate", "GeneratePage")

SpecGen == InitGen /\ [][NextGen]_vars

InitRecords ==
    /\ BrowserInit
    /\ SessionInit /\ OcrInit /\ GenInit /\ RecInit /\ AdminIdle /\ NowInit
    /\ NavAt("/records", "RecordsPage")

SpecRecords == InitRecords /\ [][NextRecords]_vars

InitAdmin ==
    /\ BrowserInit
    /\ SessionInit /\ OcrInit /\ GenInit /\ RecIdle /\ AdminInit /\ NowInit
    /\ NavAt("/admin", "AdminPage")

SpecAdmin == InitAdmin /\ [][NextAdmin]_vars

\* the two working pages, one of them mounted
InitPages ==
    /\ BrowserInitEither
    /\ SessionInit /\ OcrInit /\ GenInit /\ RecIdle /\ AdminIdle /\ NowInit
    /\ NavAt("/ocr", "OCRPage") \/ NavAt("/generate", "GeneratePage")

NextPages ==
    \/ rendered = "OCRPage" /\ NextOCR
    \/ rendered = "GeneratePage" /\ NextGen

SpecPages == InitPages /\ [][NextPages]_vars

InitRouter ==
    /\ BrowserInit
    /\ SessionInit /\ OcrInit /\ GenInit /\ RecIdle /\ AdminIdle /\ NowInit
    /\ NavInit

SpecRouter == InitRouter /\ [][NextRouter]_vars

(***************************************************************************)
(* C1: on the OCR page, right after onDrop ran with an accepted file, the  *)
(* page holds that file, no extracted text, processed false and no         *)
(* download links, whatever the state before.                              *)
(***************************************************************************)
C1_DropResets ==
    (ocrLast.op = "onDrop" /\ ocrLast.file # Undefined) =>
        /\ ocrFile = ocrLast.file
        /\ ocrText = ""
        /\ ocrProcessed = FALSE
        /\ ocrUrls = EmptyUrls

\* a drop arrives while a convert is still awaited
C1_Witness ==
    /\ ocrLast.op = "onDrop"
    /\ ocrLast.file = "b.pdf"
    /\ ocrLoading
    /\ ocrFile = "b.pdf"

(***************************************************************************)
(* C10: right after a convert succeeded, the shown text is the response    *)
(* text when that is non-empty and the placeholder otherwise; it is never  *)
(* empty.                                                                  *)
(***************************************************************************)
C10_TextAfterSuccess ==
    ocrLast.op = "convertOk" =>
        /\ ocrText = (IF ocrLast.text \in {Undefined, ""}
                         THEN "No text extracted" ELSE ocrLast.text)
        /\ ocrText # ""

C10_Witness ==
    /\ ocrLast.op = "convertOk"
    /\ ocrLast.text = ""
    /\ ocrText = "No text extracted"

(***************************************************************************)
(* C2: on the Generate page, right after onDrop selected a context file,   *)
(* the earlier generated document and the earlier download links are       *)
(* cleared.                                                                *)
(***************************************************************************)
C2_DropClearsResult ==
    (genLast.op = "onDrop" /\ Truthy(genLast.file)) =>
        /\ genDoc = ""
        /\ genUrls = EmptyUrls

(***************************************************************************)
(* C9: right after a submit of the Generate form, generateDocument has     *)
(* been called exactly when the prompt has at least 10 characters; with a  *)
(* shorter prompt no call is awaited, loading is false and the message     *)
(* "Prompt must be at least 10 characters long" is shown.                  *)
(***************************************************************************)
C9_SubmitValidates ==
    genLast.op = "submit" =>
        IF Len(genLast.prompt) >= 10
           THEN /\ Len(genReqs) = 1
                /\ genReqs[1].prompt = genLast.prompt
                /\ genLoading
                /\ genErrors = Undefined
           ELSE /\ genReqs = <<>>
                /\ ~genLoading
                /\ genErrors = "Prompt must be at least 10 characters long"

\* the 5-character prompt of the example is refused
C9_Witness ==
    /\ genLast.op = "submit"
    /\ genLast.prompt = "short"
    /\ genErrors = PromptTooShort
    /\ genReqs = <<>>

(***************************************************************************)
(* C3: every adminGetAllRecords and adminDeleteRecord request leaves the   *)
(* client with the Authorization header "Bearer <admin_token item>", also  *)
(* while a session of the identity provider is active.                     *)
(***************************************************************************)
C3_AdminRequestsCarryAdminToken ==
    \A i \in 1..Len(adminSent) :
        adminSent[i].kind \in {"admin-list", "admin-delete"} =>
            /\ Truthy(adminSent[i].stored)
            /\ adminSent[i].auth = "Bearer " \o adminSent[i].stored

(***************************************************************************)
(* C4: right after adminLogin was fulfilled with { access_token }, the     *)
(* token is stored under admin_token, adminToken holds it and the          *)
(* dashboard is shown.                                                     *)
(***************************************************************************)
C4_LoginStoresToken ==
    adminLast.op = "loginOk" =>
        /\ lsAdminToken = adminLast.token
        /\ adminToken = adminLast.token
        /\ AdminScreen = "dashboard"

(***************************************************************************)
(* C5: right after logout the admin_token item is gone and adminToken is   *)
(* empty, and no admin records request is sent while adminToken is empty.  *)
(***************************************************************************)
C5_LogoutStopsFetching ==
    /\ adminLast.op = "logout" => (lsAdminToken = Null /\ adminToken = "")
    /\ \A i \in 1..Len(adminSent) :
          adminSent[i].kind = "admin-list" => Truthy(adminToken)

(***************************************************************************)
(* C6 as stated: a list request is sent only by the mount, a poll interval *)
(* or a user action, never by an automatic retry.                          *)
(***************************************************************************)
C6_NoAutomaticRetry ==
    recSent # <<>> => recQuery.trigger \in {"mount", "interval", "refetch"}

(***************************************************************************)
(* C6 as amended: a failed list fetch of the query client is sent again    *)
(* automatically once and no more; the failure then shows and the next     *)
(* request waits for a poll interval or a user action.                     *)
(***************************************************************************)
C6_RetriedOnce ==
    /\ recQuery.resends <= 1
    /\ recSent # <<>> =>
          \/ recQuery.trigger \in {"mount", "interval", "refetch"}
          \/ recQuery.trigger = "retry" /\ recQuery.resends = 1
    /\ (recQuery.fetchStatus = "idle" /\ recQuery.error) => recSent = <<>>

\* the one automatic retry has gone out
C6_Witness ==
    /\ recSent # <<>>
    /\ recQuery.trigger = "retry"
    /\ recQuery.failureCount = 1

(***************************************************************************)
(* C7: in every record list shown, a row whose output_file_url is empty or *)
(* malformed JSON renders, shows neither the DOCX nor the PDF link, and    *)
(* leaves each other row as that row renders on its own.                   *)
(***************************************************************************)
C7_MalformedUrls == {UrlEmpty, UrlMalformed, UrlTruncated}

C7_MalformedRowDegrades ==
    LET list == recQuery.data
        view == RecordsPageView(recQuery)
        table == AdminRows(list)
        NoLinks == [failed |-> FALSE, docx |-> FALSE, pdf |-> FALSE]
        Alone(j) == RecordsPageView([recQuery EXCEPT !.data = <<list[j]>>])
    IN  (recQuery.hasData /\ ~recQuery.error) =>
        \A i \in 1..Len(list) :
            list[i].output_file_url \in C7_MalformedUrls =>
                /\ RecordsRow(list[i]) = NoLinks
                /\ AdminRow(list[i]) = NoLinks
                /\ view.screen \in {"list", "crashed"}
                /\ view.screen = "list" => view.rows[i] = NoLinks
                /\ table.screen = "list" => table.rows[i] = NoLinks
                /\ \A j \in 1..Len(list) :
                      /\ view.screen = "list" => view.rows[j] = Alone(j).rows[1]
                      /\ table.screen = "list" =>
                            table.rows[j] = AdminRows(<<list[j]>>).rows[1]
                /\ view.screen = "crashed" =>
                      \E j \in 1..Len(list) :
                          j # i /\ Alone(j).screen = "crashed"

\* a malformed row beside a row with a DOCX link
C7_Witness ==
    /\ recQuery.hasData /\ ~recQuery.error
    /\ Len(recQuery.data) = 2
    /\ recQuery.data[1].output_file_url = UrlMalformed
    /\ recQuery.data[2].output_file_url = UrlDocx
    /\ RecordsPageView(recQuery).screen = "list"
    /\ RecordsPageView(recQuery).rows[2].docx
    /\ ~RecordsPageView(recQuery).rows[1].docx

(***************************************************************************)
(* C8: on the dashboard, Recent Activity is the number of records whose    *)
(* created_at is strictly later than now minus 24 hours, so a record       *)
(* created exactly 24 hours ago is not counted.                            *)
(***************************************************************************)
C8_RecentActivity ==
    AdminScreen = "dashboard" =>
        AdminStats.recent =
            Cardinality({i \in 1..Len(adminQuery.data) :
                            /\ adminQuery.data[i].created_at >= 0
                            /\ adminQuery.data[i].created_at > now - 86400000})

\* a record created exactly 24 hours ago is listed and not counted
C8_Witness ==
    /\ AdminScreen = "dashboard"
    /\ Len(adminQuery.data) = 2
    /\ adminQuery.data[1].created_at = now - 86400000
    /\ adminQuery.data[2].created_at = now - 86400000 + 1
    /\ AdminStats.recent = 1

(***************************************************************************)
(* C11: a signed-out user never has a protected page on screen, and right  *)
(* after such a user asked for /ocr, /generate or /records the location is *)
(* /login with the login page rendered.                                    *)
(***************************************************************************)
C11_ProtectedRedirect ==
    /\ ~Truthy(session) => rendered \notin ProtectedPages
    /\ (/\ navLast.op \in {"open", "go"}
        /\ navLast.path \in ProtectedPaths
        /\ ~Truthy(navLast.user)) =>
            location = "/login" /\ rendered = "LoginPage"

\* a signed-out user asked for /records and is on /login
C11_Witness ==
    /\ navLast = NavEvent("go", "/records", NoSession)
    /\ location = "/login"
    /\ rendered = "LoginPage"

C13_BodyShape ==
    \A i \in 1..Len(genReqs) :
        LET call == genReqs[i] IN
        call.stage = "sent" =>
            /\ call.body.user_id \in {UserId(t) : t \in SessionTokens}
            /\ call.body.prompt = call.prompt
            /\ call.file \in Files <=>
                  /\ call.body.shape = "multipart"
                  /\ DOMAIN call.body = {"shape", "prompt", "user_id", "file"}
                  /\ call.body.file = call.file
            /\ call.file \in {NoFile, Undefined} <=>
                  /\ call.body.shape = "json"
                  /\ DOMAIN call.body = {"shape", "prompt", "user_id"}

\* one call on the wire with a file, an earlier document still shown
C13_Witness ==
    /\ Len(genReqs) = 1
    /\ genReqs[1].stage = "sent"
    /\ genReqs[1].body.shape = "multipart"
    /\ genReqs[1].file = "a.png"
    /\ genProcessed = FALSE
    /\ Truthy(genDoc)

(***************************************************************************)
(* C14: every ocrConvert call under way was started with a file, and a     *)
(* run of handleConvert with no file selected raises the toast "Please     *)
(* select a file first", sends nothing, and leaves file, loading,          *)
(* processed, extractedText and downloadUrls as they were.                 *)
(***************************************************************************)
C14_ConvertNeedsFile ==
    /\ [](\A i \in 1..Len(ocrReqs) : ocrReqs[i].file \in Files)
    /\ [][(ocrFile = NoFile /\ ocrLast'.op = "convert" /\ ocrLast' # ocrLast) =>
            /\ ocrToast' = ToastError("Please select a file first")
            /\ UNCHANGED <<ocrFile, ocrLoading, ocrProcessed, ocrText,
                           ocrUrls, ocrReqs>>]_vars

\* handleConvert ran with no file and refused
C14_Witness ==
    /\ ocrLast = OcrEvent("convert", NoFile, Undefined, NoFilesField)
    /\ ocrToast = ToastError("Please select a file first")
    /\ ocrReqs = <<>>
    /\ ~ocrLoading

(***************************************************************************)
(* C15: on the OCR page and on the Generate page at most one call is under *)
(* way at any time, and loading is true exactly while one is.              *)
(***************************************************************************)
C15_OneInFlight ==
    /\ Len(ocrReqs) <= 1
    /\ Len(genReqs) <= 1
    /\ ocrLoading <=> ocrReqs # <<>>
    /\ genLoading <=> genReqs # <<>>

\* a convert under way whose file was removed, then replaced
C15_Witness ==
    /\ Len(ocrReqs) = 1
    /\ ocrLoading
    /\ ocrFile \in Files
    /\ ocrFile # ocrReqs[1].file
    /\ ocrLast.op = "onDrop"

(***************************************************************************)
(* C16: right after a convert or a generate call settled, a success has    *)
(* left processed true with the result shown, and a failure has left       *)
(* loading false, processed false, no result text, no download links, and  *)
(* an error toast.                                                         *)
(***************************************************************************)
C16_SettleStates ==
    /\ ocrLast.op = "convertOk" =>
          ocrProcessed /\ Truthy(ocrText) /\ ~ocrLoading
    /\ ocrLast.op \in {"convertFailed", "authFailed"} =>
          /\ ~ocrLoading /\ ~ocrProcessed
          /\ ocrText = "" /\ ocrUrls = EmptyUrls
          /\ ocrToast.kind = "error"
    /\ genLast.op = "submitOk" =>
          genProcessed /\ Truthy(genDoc) /\ ~genLoading
    /\ genLast.op \in {"submitFailed", "authFailed"} =>
          /\ ~genLoading /\ ~genProcessed
          /\ genDoc = "" /\ genUrls = EmptyUrls
          /\ genToast.kind = "error"

(***************************************************************************)
(* C17 as stated: right after a download action on a page that shows a     *)
(* result, the url of the format was opened in a new tab when the          *)
(* response's files map held one, and a blob of the result text was saved  *)
(* when the response held no files map (downloadUrls is then {}).          *)
(***************************************************************************)
C17_OpensOrSynthesizes ==
    /\ ocrLast.op = "download" =>
          /\ Truthy(ocrUrls[download.format]) =>
                download.kind = "open" /\ download.url = FullUrl(ocrUrls[download.format])
          /\ ocrUrls = EmptyUrls =>
                download.kind = "blob" /\ download.text = ocrText
    /\ genLast.op = "download" =>
          /\ Truthy(genUrls[download.format]) =>
                download.kind = "open" /\ download.url = FullUrl(genUrls[download.format])
          /\ genUrls = EmptyUrls =>
                download.kind = "blob" /\ download.text = genDoc

(***************************************************************************)
(* C17 as amended: a download action opens the url of the format in a new  *)
(* tab when downloadUrls holds one; without one the OCR page offers no     *)
(* download and the Generate page refuses with an error toast and saves    *)
(* nothing.  Only the text version of the Generate page saves a blob of    *)
(* the text, and it does so for every response.                            *)
(***************************************************************************)
C17_ExpectedUrl(url) ==
    IF url = "https://cdn.example/1.pdf" THEN url
    ELSE "https://ocr-doc-backend.onrender.com" \o url

C17_OpensOrRefuses ==
    /\ ocrLast.op = "download" =>
          /\ Truthy(ocrUrls[download.format])
          /\ download = [kind |-> "open", page |-> "ocr", format |-> download.format,
                         url |-> C17_ExpectedUrl(ocrUrls[download.format])]
    /\ (genLast.op = "download" /\ genVariant = "url") =>
          IF Truthy(genUrls[download.format])
             THEN download = [kind |-> "open", page |-> "generate",
                              format |-> download.format,
                              url |-> C17_ExpectedUrl(genUrls[download.format])]
             ELSE /\ download.kind = "refused"
                  /\ genToast = ToastError(download.format \o " file not available")
    /\ (genLast.op = "download" /\ genVariant = "text") =>
          /\ genUrls = EmptyUrls
          /\ download = [kind |-> "blob", page |-> "generate",
                         format |-> download.format, text |-> genDoc]

\* a download was refused on the Generate page for want of a url
C17_Witness ==
    /\ genLast.op = "download"
    /\ genVariant = "url"
    /\ genProcessed
    /\ genUrls = EmptyUrls
    /\ download.kind = "refused"

(***************************************************************************)
(* C18 as stated: the step in which a delete succeeds puts the list        *)
(* request on the wire; the step in which a delete fails puts nothing on   *)
(* it; and the records shown change only in the step in which a list       *)
(* response arrives, never in a step of the delete.                        *)
(***************************************************************************)
C18_DeleteSettles(op) == adminDelete # "idle" /\ adminLast'.op = op

C18_ListChangesOnlyOnFetch ==
    /\ adminQuery'.data # adminQuery.data =>
          adminQuery.fetchStatus = "fetching" /\ adminLast'.op = "listOk"
    /\ (C18_DeleteSettles("deleteOk") \/ C18_DeleteSettles("deleteFailed")
           \/ adminDelete' # adminDelete) =>
          /\ adminQuery'.data = adminQuery.data
          /\ adminQuery'.hasData = adminQuery.hasData
    /\ C18_DeleteSettles("deleteFailed") =>
          adminSent' = <<>> /\ adminQuery' = adminQuery

C18_DeleteRefetches ==
    [][/\ C18_DeleteSettles("deleteOk") =>
             /\ \E i \in 1..Len(adminSent') : adminSent'[i].kind = "admin-list"
             /\ adminQuery'.fetchStatus = "fetching"
       /\ C18_ListChangesOnlyOnFetch]_vars

(***************************************************************************)
(* C18 as amended: the refetch follows a successful delete while the admin *)
(* is logged in; after a logout the delete only marks the list stale and   *)
(* sends nothing.  The rest is as stated.                                  *)
(***************************************************************************)
C18_DeleteRefetchesWhileLoggedIn ==
    [][/\ (C18_DeleteSettles("deleteOk") /\ Truthy(adminToken)) =>
             /\ \E i \in 1..Len(adminSent') : adminSent'[i].kind = "admin-list"
             /\ adminQuery'.fetchStatus = "fetching"
             /\ adminQuery'.trigger = "invalidate"
       /\ (C18_DeleteSettles("deleteOk") /\ ~Truthy(adminToken)) =>
             adminSent' = <<>> /\ adminQuery'.invalidated
       /\ C18_ListChangesOnlyOnFetch]_vars

\* a delete succeeded; both records are still shown while the list is fetched
C18_Witness ==
    /\ adminLast.op = "deleteOk"
    /\ Truthy(adminToken)
    /\ Len(adminQuery.data) = 2
    /\ adminQuery.fetchStatus = "fetching"
    /\ Len(adminSent) = 1
    /\ adminSent[1].kind = "admin-list"

(***************************************************************************)
(* C19, on the admin page: the step in which a backend call of the page    *)
(* fails for good (an admin login or a delete rejected, the list query     *)
(* ending in its error state after its retry) raises an error toast.       *)
(***************************************************************************)
C19_FailuresSurfaced ==
    [][/\ (adminLogin = "pending" /\ adminLast'.op = "loginFailed") =>
             adminToast' = ToastError("Invalid admin credentials")
       /\ (adminDelete # "idle" /\ adminLast'.op = "deleteFailed") =>
             adminToast' = ToastError("Failed to delete record")
       /\ (~adminQuery.error /\ adminQuery'.error) =>
             adminToast'.kind = "error" /\ adminToast' # adminToast]_vars

(***************************************************************************)
(* C20: the OCR page has no fence.  When the response of a convert arrives *)
(* for a file that is no longer the selected one (it was replaced or       *)
(* removed while the request was in flight), the response is applied all   *)
(* the same: extractedText, downloadUrls and processed are set from it.    *)
(***************************************************************************)
C20_SupersededApplied ==
    [][(/\ Len(ocrReqs') < Len(ocrReqs)
        /\ ocrLast'.op = "convertOk"
        /\ ocrLast'.file # ocrFile) =>
           /\ ocrText' = (IF ocrLast'.text \in {Undefined, ""}
                             THEN "No text extracted" ELSE ocrLast'.text)
           /\ ocrUrls' = (IF ocrLast'.files = NoFilesField
                             THEN EmptyUrls ELSE ocrLast'.files)
           /\ ocrProcessed'
           /\ ocrFile' = ocrFile]_vars

\* the text of one file is shown as the result while another file is selected
C20_Witness ==
    /\ ocrLast.op = "convertOk"
    /\ ocrFile \in Files
    /\ ocrLast.file \in Files
    /\ ocrLast.file # ocrFile
    /\ ocrProcessed
    /\ ocrText = "hello"
    /\ ocrUrls # EmptyUrls

(***************************************************************************)
(* C21: on the OCR page, whenever a result is shown (processed), a file is *)
(* selected, and the result just applied by a convert response is the one  *)
(* of the file that is selected.                                           *)
(***************************************************************************)
C21_ResultOfSelectedFile ==
    ocrProcessed =>
        /\ ocrFile # NoFile
        /\ ocrLast.op = "convertOk" => ocrLast.file = ocrFile

(***************************************************************************)
(* C22: on the OCR page and on the Generate page, loading and processed    *)
(* are never both true.                                                    *)
(***************************************************************************)
C22_NotLoadingAndProcessed ==
    /\ ~(ocrLoading /\ ocrProcessed)
    /\ ~(genLoading /\ genProcessed)

\* a generation was submitted while the document of an earlier one is shown
C22_Witness ==
    /\ genLast.op = "submit"
    /\ genLoading
    /\ ~genProcessed
    /\ Truthy(genDoc)

(***************************************************************************)
(* C23: on the OCR page processed is true exactly when extractedText is    *)
(* non-empty, and downloadUrls holds a url only when processed is true.    *)
(***************************************************************************)
C23_ProcessedIffText ==
    /\ ocrProcessed <=> ocrText # ""
    /\ (\E format \in Formats : ocrUrls[format] # Undefined) => ocrProcessed

\* a result with links was shown and the file was then removed
C23_Witness ==
    /\ ocrLast.op = "removeFile"
    /\ ~ocrProcessed
    /\ ocrText = ""
    /\ ocrUrls = EmptyUrls
    /\ download # NoDownload

(***************************************************************************)
(* C24: whatever string a record holds in output_file_url, its row renders *)
(* on the Records page and on the Admin page, and so does the list it is   *)
(* part of; a link is shown only for a docx or pdf entry that is there.    *)
(***************************************************************************)
C24_EveryRowRenders ==
    LET list == recQuery.data IN
    (recQuery.hasData /\ ~recQuery.error) =>
        /\ RecordsPageView(recQuery).screen # "crashed"
        /\ \A i \in 1..Len(list) :
              /\ ~RecordsRow(list[i]).failed
              /\ ~AdminRow(list[i]).failed
              /\ RecordsRow(list[i]).docx =>
                    KeyDocx \in DOMAIN ParseUrls(list[i].output_file_url).members
              /\ RecordsRow(list[i]).pdf =>
                    KeyPdf \in DOMAIN ParseUrls(list[i].output_file_url).members

C26_EmptyDropChangesNothing ==
    [][(/\ ocrLast' # ocrLast
        /\ ocrLast'.op = "onDrop"
        /\ ocrLast'.file = Undefined) =>
           UNCHANGED <<ocrFile, ocrText, ocrProcessed, ocrUrls, ocrLoading>>]_vars

\* a rejected drop while a result with links is shown: the result stays
C26_Witness ==
    /\ ocrLast.op = "onDrop"
    /\ ocrLast.file = Undefined
    /\ ocrFile = "a.png"
    /\ ocrProcessed
    /\ ocrText = "hello"
    /\ ocrUrls # EmptyUrls

(***************************************************************************)
(* C27: on the Generate page a displayed document is the result of the     *)
(* most recent settled generate call: when the last call to settle has     *)
(* failed, no document is displayed and no download link can be used.      *)
(***************************************************************************)
C27_DisplayedIsLatest ==
    genLast.op \in {"submitFailed", "authFailed"} =>
        /\ ~Truthy(genDoc)
        /\ \A format \in Formats : ~Truthy(genUrls[format])

====
